---- MODULE Spec2Model ----
(***************************************************************************)
(* Model of the Ansible SQLite logger: the callback plugin                 *)
(* (sqlite_logger.py, the Event Recorder) that appends one row per task    *)
(* outcome to the table task_logs, and the Flask application (app.py, the  *)
(* Query Service) that reads the same table.                               *)
(*                                                                         *)
(* Text columns that are matched with LIKE are sequences of one-character  *)
(* strings; columns only compared for equality are strings.                *)
(***************************************************************************)
EXTENDS Integers, Sequences, FiniteSets, TLC

VARIABLES
    db_connection,   \* CallbackModule.db_connection: "None" or "open"
    playbook_name,   \* CallbackModule.playbook_name
    playbook_uuid,   \* CallbackModule.playbook_uuid
    rpc,             \* recorder position: "new" (fields set, _initialize_db not run) or "ready"
    init_outcome,    \* history: how _initialize_db ended
    last_start,      \* history: the last run-start signal seen, or NoStart
    callback,        \* history: how the last callback ended and what it did
    attempts,        \* history: number of INSERT statements the recorder executed
    failed,          \* history: the signals (by number) whose INSERT or COMMIT failed
    nsignals,        \* number of task-outcome signals handled so far
    table,           \* whether table task_logs exists in the store file
    store,           \* committed rows of task_logs, in insertion order
    pending,         \* rows inserted on the recorder's connection and not yet committed
    req,             \* the Query Service request in progress
    resp             \* the response to the last finished request

vars == <<db_connection, playbook_name, playbook_uuid, rpc, init_outcome, last_start,
          callback, attempts, failed, nsignals, table, store, pending, req, resp>>

recorderVars == <<db_connection, playbook_name, playbook_uuid, rpc, init_outcome,
                  last_start, callback, attempts, failed, nsignals, pending>>

----------------------------------------------------------------------------
(* Bounds *)

MaxSignals == 2          \* task-outcome signals one recorder handles
MaxFullPages == 2        \* the largest stored table holds about this many full pages
MaxActiveFilters == 2    \* filters a request combines
MaxPage == 4             \* largest one-digit page number requested

(* Program constants *)

PER_PAGE == 100

----------------------------------------------------------------------------
(* Values *)

NULL == "NULL"              \* SQL NULL in a string column
NullText == <<"NULL">>      \* SQL NULL in a text (character sequence) column
AdHoc == <<"A", "d", "-", "H", "o", "c">>
NA == "N/A"
Absent == "absent"          \* an attribute or key that is not there

NoStart == [file_name |-> <<>>, uuid |-> Absent]

(* A timestamp is <<year, month, day, hour>>, the components of the ISO text *)
(* 'YYYY-MM-DD HH:...' that the store keeps; text order is tuple order.      *)
(* datetime.datetime.now() at the n-th task-outcome signal.                  *)
now(n) == <<2024, 3, 5, 9 + n>>

(* Run-start signals: the Playbook object's _file_name and, when it has    *)
(* one, its _uuid.                                                          *)
Playbooks ==
    { [file_name |-> <<"a">>, uuid |-> "u1"],
      [file_name |-> <<"p", "/", "B">>, uuid |-> Absent] }

(* Task results: host, task name, action and the _result dictionary.  The  *)
(* key "circular" stands for a payload that refers to itself.               *)
Payloads ==
    { [rc |-> 0],
      [rc |-> 0, changed |-> TRUE],
      [rc |-> 0, changed |-> FALSE],
      [rc |-> 0, changed |-> TRUE, circular |-> TRUE] }

TaskResult(p) ==
    [host |-> <<"W", "1">>, task_name |-> <<"t">>, action |-> <<"c", "p">>, result |-> p]

TaskResults == {TaskResult(p) : p \in Payloads}

\* the results of tasks that failed, were unreachable or were skipped
FailedResults == {TaskResult([rc |-> 0])}

(* Exceptions.  sqlite3.OperationalError and sqlite3.IntegrityError are     *)
(* subclasses of sqlite3.Error; all are subclasses of Exception.            *)
Sqlite3Errors == {"OperationalError", "IntegrityError"}
ExecOutcomes == {"ok"} \cup Sqlite3Errors

----------------------------------------------------------------------------
(* Event Recorder: sqlite_logger.py *)

\* os.path.basename: what follows the last "/"
RECURSIVE LastSlash(_, _)
LastSlash(p, i) ==
    IF i = 0 THEN 0
    ELSE IF p[i] = "/" THEN i ELSE LastSlash(p, i - 1)

basename(p) == SubSeq(p, LastSlash(p, Len(p)) + 1, Len(p))

\* dict.get(key, default)
get(d, k, default) == IF k \in DOMAIN d THEN d[k] ELSE default

\* json.dumps(result._result, default=str): "ok" or the exception raised
json_dumps(payload) ==
    IF get(payload, "circular", FALSE) THEN "ValueError" ELSE "ok"

\* except Exception: (line 102)
caught_by_except_Exception(e) == TRUE

\* as if line 112 read "except sqlite3.IntegrityError"
caught_only_IntegrityError(e) == e = "IntegrityError"

\* except sqlite3.Error: (line 112)
caught_by_except_sqlite3_Error(e) == e \in Sqlite3Errors

\* lines 100-103: the text stored in column result
result_json(payload) ==
    LET e == json_dumps(payload)
    IN  IF e = "ok" THEN [kind |-> "json", of |-> payload]
        ELSE IF caught_by_except_Exception(e) THEN [kind |-> "placeholder"]
        ELSE [kind |-> "raise", of |-> e]

\* as if line 117 read get('changed', True)
status_on_ok_default_true(result) ==
    IF get(result.result, "changed", TRUE) THEN "CHANGED" ELSE "OK"

\* line 117
status_on_ok(result) ==
    IF get(result.result, "changed", FALSE) THEN "CHANGED" ELSE "OK"

\* line 121
status_on_failed(ignore_errors) ==
    IF ignore_errors THEN "FAILED_IGNORED" ELSE "FAILED"

\* id INTEGER PRIMARY KEY AUTOINCREMENT: one more than the largest id in use
RECURSIVE MaxId(_)
MaxId(rows) ==
    IF rows = <<>> THEN 0
    ELSE LET m == MaxId(Tail(rows))
         IN  IF Head(rows).id > m THEN Head(rows).id ELSE m

next_id == MaxId(store \o pending) + 1

\* line 92: if not self.db_connection: return
recorder_disabled == db_connection = "None"

\* as if line 42 did not return
initialize_db_connection_no_return(env) ==
    IF env.connect # "ok" THEN "None" ELSE "open"

\* lines 32-82.  env: what the file system and SQLite answer.
initialize_db_connection(env) ==
    IF ~env.dir_exists /\ env.makedirs # "ok" THEN "None"      \* 37-42: return
    ELSE IF env.connect # "ok" THEN "None"                      \* 46 raised: never assigned
    ELSE "open"                                                 \* 46 assigned; 81 only warns

initialize_db_outcome(env) ==
    IF ~env.dir_exists /\ env.makedirs # "ok" THEN "mkdir_failed"
    ELSE IF env.connect # "ok" THEN "connect_failed"
    ELSE IF env.create # "ok" THEN "create_failed"
    ELSE "ok"

\* connect: line 46; create: the statements of lines 47-80
InitEnvs ==
    [dir_exists : BOOLEAN, makedirs : {"ok", "OSError"},
     connect : ExecOutcomes, create : ExecOutcomes]

initialize_db ==
    /\ rpc = "new"
    /\ \E env \in InitEnvs :
        \* a store file without its directory, or a table without the file, cannot be
        /\ (table => env.dir_exists)
        /\ db_connection' = initialize_db_connection(env)
        /\ init_outcome' = initialize_db_outcome(env)
        /\ table' = (table \/ initialize_db_outcome(env) = "ok")
    /\ rpc' = "ready"
    /\ UNCHANGED <<playbook_name, playbook_uuid, last_start, callback, attempts,
                   failed, nsignals, store, pending, req, resp>>

\* lines 84-88
uuid_on_start(playbook) ==
    IF playbook.uuid # Absent THEN playbook.uuid ELSE playbook_uuid

v2_playbook_on_start ==
    /\ rpc = "ready"
    /\ \E playbook \in Playbooks :
        /\ playbook_name' = basename(playbook.file_name)
        /\ playbook_uuid' = uuid_on_start(playbook)
        /\ last_start' = playbook
    /\ callback' = [outcome |-> "returned", wrote |-> 0]
    /\ UNCHANGED <<db_connection, rpc, init_outcome, attempts, failed, nsignals, table,
                   store, pending, req, resp>>

\* lines 105-110: the row the INSERT adds.  Field origin is history, not a column.
new_row(result, status, signal) ==
    [id |-> next_id,
     timestamp |-> now(nsignals + 1),
     inventory_hostname |-> result.host,
     playbook |-> playbook_name,
     playbook_uuid |-> playbook_uuid,
     module |-> result.action,
     task_name |-> result.task_name,
     status |-> status,
     result |-> result_json(result.result),
     origin |-> [signal |-> signal, start |-> last_start, n |-> nsignals + 1]]

(* lines 90-113.  db: SQLite's answers, [insert, commit : ExecOutcomes,     *)
(* keep : BOOLEAN]; after a failed statement SQLite either leaves the open  *)
(* transaction as it is (SQLITE_BUSY) or rolls it back (I/O error, full     *)
(* disk): keep says which.                                                   *)
log_result(result, status, signal, db) ==
    IF recorder_disabled
    THEN /\ callback' = [outcome |-> "returned", wrote |-> 0]
         /\ UNCHANGED <<attempts, failed, store, pending>>
    ELSE LET rj == result_json(result.result)
             row == new_row(result, status, signal)
             me == nsignals + 1
         IN  IF rj.kind = "raise"
             THEN /\ callback' = [outcome |-> "raised", wrote |-> 0]
                  /\ UNCHANGED <<attempts, failed, store, pending>>
             ELSE /\ attempts' = attempts + 1
                  /\ IF db.insert # "ok"
                     THEN /\ pending' = IF db.keep THEN pending ELSE <<>>
                          /\ store' = store
                          /\ failed' = failed \cup {me}
                          /\ callback' =
                               [outcome |-> IF caught_by_except_sqlite3_Error(db.insert)
                                            THEN "returned" ELSE "raised",
                                wrote |-> 0]
                     ELSE IF db.commit # "ok"
                     THEN /\ pending' = IF db.keep THEN Append(pending, row) ELSE <<>>
                          /\ store' = store
                          /\ failed' = failed \cup {me}
                          /\ callback' =
                               [outcome |-> IF caught_by_except_sqlite3_Error(db.commit)
                                            THEN "returned" ELSE "raised",
                                wrote |-> 0]
                     ELSE /\ pending' = <<>>
                          /\ store' = store \o Append(pending, row)
                          /\ failed' = failed
                          /\ callback' = [outcome |-> "returned", wrote |-> row.id]

DbAnswers == [insert : ExecOutcomes, commit : ExecOutcomes, keep : BOOLEAN]

\* what SQLite can answer in the current state: without the table every INSERT fails
db_can_answer(db) == (~table => db.insert = "OperationalError")

runner_callback(result, status, signal) ==
    /\ rpc = "ready"
    /\ nsignals < MaxSignals
    /\ nsignals' = nsignals + 1
    /\ \E db \in DbAnswers :
        /\ db_can_answer(db)
        /\ log_result(result, status, signal, db)
    /\ UNCHANGED <<db_connection, playbook_name, playbook_uuid, rpc, init_outcome,
                   last_start, table, req, resp>>

changed_of(result) ==
    IF "changed" \in DOMAIN result.result
    THEN (IF result.result.changed THEN "true" ELSE "false") ELSE "absent"

\* lines 116-118
v2_runner_on_ok ==
    \E result \in TaskResults :
        runner_callback(result, status_on_ok(result),
            [kind |-> "ok", changed |-> changed_of(result), ignore_errors |-> FALSE])

\* lines 120-122
v2_runner_on_failed ==
    \E result \in FailedResults, ignore_errors \in BOOLEAN :
        runner_callback(result, status_on_failed(ignore_errors),
            [kind |-> "failed", changed |-> changed_of(result),
             ignore_errors |-> ignore_errors])

\* lines 124-125
v2_runner_on_unreachable ==
    \E result \in FailedResults :
        runner_callback(result, "UNREACHABLE",
            [kind |-> "unreachable", changed |-> changed_of(result),
             ignore_errors |-> FALSE])

\* lines 127-128
v2_runner_on_skipped ==
    \E result \in FailedResults :
        runner_callback(result, "SKIPPED",
            [kind |-> "skipped", changed |-> changed_of(result),
             ignore_errors |-> FALSE])

----------------------------------------------------------------------------
(* Query Service: app.py *)

Idle == [pc |-> "idle"]
NoResponse == [status |-> 0, kind |-> "none"]

\* lines 12-21 with 36-37 and 71-72: the connection, or None
get_db(connect) == IF connect = "ok" THEN "open" ELSE "None"

\* lines 37 and 72
error_response == [status |-> 500, kind |-> "error",
                   error |-> "Could not connect to database"]

(* An exception that leaves the view function (lines 53, 137 and 146 are in *)
(* no try block) is answered by Flask: status 500 and an HTML page.         *)
unhandled_exception_response(e) == [status |-> 500, kind |-> "html", exception |-> e]

\* lines 89-92: int(request.args.get('page', 1)), 1 on ValueError
RECURSIVE int(_)
int(digits) ==
    IF digits = <<>> THEN 0
    ELSE 10 * int(SubSeq(digits, 1, Len(digits) - 1)) + digits[Len(digits)]

parse_page(arg) == IF arg.kind = "int" THEN int(arg.digits) ELSE 1

\* as if line 94 read page * PER_PAGE
offset_of_page_times(page) == page * PER_PAGE

\* line 94
offset_of(page) == (page - 1) * PER_PAGE

\* str.zfill(2)
zfill2(digits) == IF Len(digits) < 2 THEN <<0>> \o digits ELSE digits

\* strftime('%m' | '%d' | '%H', timestamp) and strftime('%Y', timestamp)
two_digits(n) == <<n \div 10, n % 10>>
four_digits(n) == <<n \div 1000, (n \div 100) % 10, (n \div 10) % 10, n % 10>>

\* SQLite LIKE folds the case of ASCII letters
lower(c) ==
    CASE c = "A" -> "a" [] c = "B" -> "b" [] c = "H" -> "h" [] c = "W" -> "w"
      [] OTHER -> c
fold(text) == [i \in 1..Len(text) |-> lower(text[i])]

\* column LIKE '%' || arg || '%': NULL matches nothing
like_contains(column, arg) ==
    /\ column # NullText
    /\ \E i \in 0..(Len(column) - Len(arg)) :
          fold(SubSeq(column, i + 1, i + Len(arg))) = fold(arg)

\* lines 96-131: the WHERE clause, used for the count and for the page
where_clause(row, f) ==
    /\ (f.host # <<>> => like_contains(row.inventory_hostname, f.host))
    /\ (f.playbook # <<>> => like_contains(row.playbook, f.playbook))
    /\ (f.playbook_uuid # "" =>
            row.playbook_uuid # NULL /\ row.playbook_uuid = f.playbook_uuid)
    /\ (f.module # <<>> => like_contains(row.module, f.module))
    /\ (f.task # <<>> => like_contains(row.task_name, f.task))
    /\ (f.status # "ALL" => row.status = f.status)
    /\ (f.year # <<>> => four_digits(row.timestamp[1]) = f.year)
    /\ (f.month # <<>> => two_digits(row.timestamp[2]) = zfill2(f.month))
    /\ (f.day # <<>> => two_digits(row.timestamp[3]) = zfill2(f.day))
    /\ (f.hour # <<>> => two_digits(row.timestamp[4]) = zfill2(f.hour))

selected(rows, f) == SelectSeq(rows, LAMBDA r : where_clause(r, f))

\* lines 136-138: SELECT COUNT(*)
count_query(rows, f) == Len(selected(rows, f))

\* line 139: math.ceil(total_records / PER_PAGE)
ceil_div(a, b) == IF a % b = 0 THEN a \div b ELSE a \div b + 1

(* ORDER BY id DESC: task_logs is kept in id order (id is the rowid), so    *)
(* the order is the stored one backwards.                                   *)
order_by_id_desc(rows) == [i \in 1..Len(rows) |-> rows[Len(rows) + 1 - i]]

\* LIMIT ? OFFSET ?: SQLite reads a negative OFFSET as 0
limit_offset(rows, limit, offset) ==
    LET off == IF offset < 0 THEN 0 ELSE offset
        last == IF off + limit < Len(rows) THEN off + limit ELSE Len(rows)
    IN  SubSeq(rows, off + 1, last)

\* lines 142-147
data_query(rows, f, offset) ==
    limit_offset(order_by_id_desc(selected(rows, f)), PER_PAGE, offset)

\* lines 153-155: x if x else "-"
or_dash(text) == IF text = NullText \/ text = <<>> THEN <<"-">> ELSE text
or_dash_str(str) == IF str = NULL \/ str = "" THEN "-" ELSE str

\* lines 149-167
entry_of(row) ==
    [id |-> row.id,
     timestamp |-> row.timestamp,
     inventory_hostname |-> row.inventory_hostname,
     playbook |-> or_dash(row.playbook),
     playbook_uuid |-> or_dash_str(row.playbook_uuid),
     module |-> or_dash(row.module),
     task_name |-> row.task_name,
     status |-> row.status,
     result |-> row.result]

entries_of(rows) == [i \in 1..Len(rows) |-> entry_of(rows[i])]

\* what SQLite can answer to a SELECT: without the table it fails
select_can_answer(q) == (~table => q = "OperationalError")

Responded == [pc |-> "responded"]

(* api_logs, lines 70-139: connect, read the arguments, run the count.      *)
(* filters and pages are the arguments a client may send.                   *)
api_logs_count(filters, pages) ==
    /\ req.pc = "idle"
    /\ \E f \in filters, arg \in pages, connect \in {"ok", "OperationalError"},
          q \in ExecOutcomes :
        /\ select_can_answer(q)
        /\ IF get_db(connect) = "None"
           THEN /\ resp' = error_response
                /\ req' = Responded
           ELSE IF q # "ok"
           THEN /\ resp' = unhandled_exception_response(q)
                /\ req' = Responded
           ELSE LET total_records == count_query(store, f)
                IN  /\ resp' = NoResponse
                    /\ req' = [pc |-> "counted", filter |-> f, page |-> parse_page(arg),
                               total_records |-> total_records,
                               total_pages |-> ceil_div(total_records, PER_PAGE)]
    /\ UNCHANGED <<recorderVars, table, store>>

(* api_logs, lines 141-174: run the data query and answer.  Field filter of *)
(* the response is history: the arguments the request was made with.        *)
api_logs_data ==
    /\ req.pc = "counted"
    /\ \E q \in ExecOutcomes :
        /\ select_can_answer(q)
        /\ IF q # "ok"
           THEN resp' = unhandled_exception_response(q)
           ELSE resp' = [status |-> 200, kind |-> "logs",
                         data |-> entries_of(data_query(store, req.filter,
                                                        offset_of(req.page))),
                         filter |-> req.filter,
                         page |-> req.page,
                         total_pages |-> req.total_pages,
                         total_records |-> req.total_records]
    /\ req' = Responded
    /\ UNCHANGED <<recorderVars, table, store>>

\* lines 23-27: the response is sent and the request's connection closed
close_connection ==
    /\ req.pc = "responded"
    /\ req' = Idle
    /\ resp' = NoResponse
    /\ UNCHANGED <<recorderVars, table, store>>

\* as if line 47 read WHERE playbook_uuid IS NOT NULL
in_playbook_runs_not_null(row) == row.playbook_uuid # NULL

\* line 47: WHERE playbook_uuid IS NOT NULL AND playbook_uuid != 'N/A'
in_playbook_runs(row) == row.playbook_uuid # NULL /\ row.playbook_uuid # NA

\* text order of two timestamps: a <= b
ts_leq(a, b) ==
    \/ a[1] < b[1]
    \/ a[1] = b[1] /\ a[2] < b[2]
    \/ a[1] = b[1] /\ a[2] = b[2] /\ a[3] < b[3]
    \/ a[1] = b[1] /\ a[2] = b[2] /\ a[3] = b[3] /\ a[4] <= b[4]

\* line 48: GROUP BY playbook_uuid
group_of(rows, uuid) ==
    SelectSeq(rows, LAMBDA r : in_playbook_runs(r) /\ r.playbook_uuid = uuid)

group_keys(rows) ==
    {rows[i].playbook_uuid : i \in {j \in 1..Len(rows) : in_playbook_runs(rows[j])}}

timestamps_of(rows) == {rows[i].timestamp : i \in 1..Len(rows)}

\* lines 43-45: MIN(timestamp), MAX(timestamp), COUNT( * )
min_timestamp(rows) ==
    CHOOSE t \in timestamps_of(rows) : \A u \in timestamps_of(rows) : ts_leq(t, u)
max_timestamp(rows) ==
    CHOOSE t \in timestamps_of(rows) : \A u \in timestamps_of(rows) : ts_leq(u, t)
count_star(rows) == Len(rows)

\* lines 40-48 and 58-64: one result row per group; playbook is a bare column
summary_of(rows, uuid, playbook) ==
    [playbook_uuid |-> uuid,
     playbook |-> playbook,
     start_time |-> min_timestamp(group_of(rows, uuid)),
     end_time |-> max_timestamp(group_of(rows, uuid)),
     task_count |-> count_star(group_of(rows, uuid))]

\* line 49: ORDER BY start_time DESC
ordered_by_start_time_desc(seq) ==
    \A i \in 1..(Len(seq) - 1) : ts_leq(seq[i + 1].start_time, seq[i].start_time)

(* lines 39-66: the results SQLite may give.  A bare column of an aggregate *)
(* query is taken from any row of the group, and rows with equal start_time *)
(* come in any order.                                                      *)
playbooks_query(rows) ==
    LET keys == group_keys(rows)
        n == Cardinality(keys)
        names(u) == {group_of(rows, u)[i].playbook : i \in 1..Len(group_of(rows, u))}
        all == UNION {names(u) : u \in keys}
        picks == {pb \in [keys -> all] : \A u \in keys : pb[u] \in names(u)}
        orders == {o \in [1..n -> keys] : \A i, j \in 1..n : i # j => o[i] # o[j]}
        results == {[i \in 1..n |-> summary_of(rows, o[i], pb[o[i]])] :
                        o \in orders, pb \in picks}
    IN  {r \in results : ordered_by_start_time_desc(r)}

\* api_playbooks, lines 33-66
api_playbooks ==
    /\ req.pc = "idle"
    /\ \E connect \in {"ok", "OperationalError"}, q \in ExecOutcomes :
        /\ select_can_answer(q)
        /\ IF get_db(connect) = "None"
           THEN resp' = error_response
           ELSE IF q # "ok"
           THEN resp' = unhandled_exception_response(q)
           ELSE \E data \in playbooks_query(store) :
                   resp' = [status |-> 200, kind |-> "playbooks", data |-> data]
    /\ req' = Responded
    /\ UNCHANGED <<recorderVars, table, store>>

----------------------------------------------------------------------------
(* Stores and client arguments *)

Statuses == <<"OK", "CHANGED", "FAILED", "FAILED_IGNORED", "UNREACHABLE", "SKIPPED">>

(* A store file written before this process started: rows of earlier runs  *)
(* of the recorder and of its first version (no playbook, playbook_uuid or  *)
(* module: NULL after the migration).  Row i of variant v.                  *)
stored_row(i, v) ==
    LET k == (i + v) % 4
    IN  [id |-> i,
         timestamp |-> <<2024, IF (i \div 2) % 2 = 0 THEN 3 ELSE 11, 5,
                         IF (i + v) % 3 = 0 THEN 9 ELSE 14>>,
         inventory_hostname |-> IF i % 2 = 0 THEN <<"W", "1">> ELSE <<"d", "b">>,
         playbook |-> IF k = 0 THEN NullText ELSE IF k = 1 THEN AdHoc
                      ELSE IF (i + v) % 8 = 2 THEN <<"a">> ELSE <<"B">>,
         playbook_uuid |-> IF k = 0 THEN NULL ELSE IF k = 1 THEN NA
                           ELSE IF k = 2 THEN "u1" ELSE "u2",
         module |-> IF k = 0 THEN NullText ELSE <<"c", "p">>,
         task_name |-> <<"t">>,
         status |-> Statuses[(i % 6) + 1],
         result |-> [kind |-> "placeholder"],
         origin |-> [signal |-> [kind |-> "earlier"], start |-> NoStart, n |-> 0]]

stored(n, v) == [i \in 1..n |-> stored_row(i, v)]

NoFilter ==
    [host |-> <<>>, playbook |-> <<>>, playbook_uuid |-> "", module |-> <<>>,
     task |-> <<>>, status |-> "ALL", year |-> <<>>, month |-> <<>>, day |-> <<>>,
     hour |-> <<>>]

AllFilters ==
    [host : {<<>>, <<"w">>}, playbook : {<<>>, <<"b">>}, playbook_uuid : {"", "u1"},
     module : {<<>>, <<"c">>}, task : {<<>>, <<"t">>}, status : {"ALL", "FAILED"},
     year : {<<>>, <<2, 0, 2, 4>>}, month : {<<>>, <<3>>, <<0, 3>>},
     day : {<<>>, <<5>>}, hour : {<<>>, <<9>>}]

active(f) == Cardinality({k \in DOMAIN f : f[k] # NoFilter[k]})

QueryFilters == {f \in AllFilters : active(f) <= MaxActiveFilters}

RaceFilters == {NoFilter, [NoFilter EXCEPT !.status = "FAILED"]}

\* the page argument: missing, not a number, or digits
PageArgs ==
    {[kind |-> "absent"], [kind |-> "junk"], [kind |-> "int", digits |-> <<0, 2>>]}
        \cup {[kind |-> "int", digits |-> <<d>>] : d \in 0..MaxPage}

\* sizes of the stored table: around each multiple of the page size
StoredSizes ==
    {n \in {k * PER_PAGE + d : k \in 0..MaxFullPages, d \in {-1, 0, 1}} : n >= 0}

----------------------------------------------------------------------------
(* Specifications *)

\* __init__, lines 24-29; the store file is there or not
Init ==
    /\ db_connection = "None"
    /\ playbook_name = AdHoc
    /\ playbook_uuid = NA
    /\ rpc = "new"
    /\ init_outcome = "none"
    /\ last_start = NoStart
    /\ callback = [outcome |-> "returned", wrote |-> 0]
    /\ attempts = 0
    /\ failed = {}
    /\ nsignals = 0
    /\ table \in BOOLEAN
    /\ store = (IF table THEN stored(1, 1) ELSE <<>>)
    /\ pending = <<>>
    /\ req = Idle
    /\ resp = NoResponse

Next ==
    \/ initialize_db
    \/ v2_playbook_on_start
    \/ v2_runner_on_ok
    \/ v2_runner_on_failed
    \/ v2_runner_on_unreachable
    \/ v2_runner_on_skipped

\* the Event Recorder and its store
Spec == Init /\ [][Next]_vars

(* The Query Service over a store file that no recorder is writing to.      *)
InitQuery ==
    /\ db_connection = "None"
    /\ playbook_name = AdHoc
    /\ playbook_uuid = NA
    /\ rpc = "new"
    /\ init_outcome = "none"
    /\ last_start = NoStart
    /\ callback = [outcome |-> "returned", wrote |-> 0]
    /\ attempts = 0
    /\ failed = {}
    /\ nsignals = 0
    /\ table \in BOOLEAN
    /\ store \in (IF table THEN {stored(n, n % 2) : n \in StoredSizes} ELSE {<<>>})
    /\ pending = <<>>
    /\ req = Idle
    /\ resp = NoResponse

NextQuery ==
    \/ api_logs_count(QueryFilters, PageArgs)
    \/ api_logs_data
    \/ api_playbooks
    \/ close_connection

SpecQuery == InitQuery /\ [][NextQuery]_vars

(* One recorder reporting failed tasks while a client lists the log.        *)
NextRace ==
    \/ initialize_db
    \/ v2_runner_on_failed
    \/ api_logs_count(RaceFilters, {[kind |-> "absent"]})
    \/ api_logs_data
    \/ close_connection

SpecRace == Init /\ [][NextRace]_vars

----------------------------------------------------------------------------
(* Properties *)

\* the rows this recorder inserted, committed or not
written == SelectSeq(store \o pending, LAMBDA r : r.origin.n > 0)
\* the committed rows this recorder inserted
committed == SelectSeq(store, LAMBDA r : r.origin.n > 0)

rows_in(seq) == {seq[i] : i \in 1..Len(seq)}

(* C1: when the directory could not be created at initialization, no signal *)
(* that follows makes the recorder attempt a write, and the store gains no  *)
(* entry from it.                                                           *)
C1_MkdirFailureDisables ==
    init_outcome = "mkdir_failed" =>
        /\ attempts = 0
        /\ written = <<>>
        /\ db_connection = "None"

C1_Witness ==
    /\ init_outcome = "mkdir_failed"
    /\ nsignals = MaxSignals
    /\ last_start # NoStart

(* C2: every row the recorder writes has the status the derivation table    *)
(* gives for its signal: ok with changed true CHANGED, ok otherwise OK,     *)
(* failed with ignore-errors FAILED_IGNORED, failed otherwise FAILED,       *)
(* unreachable UNREACHABLE, skipped SKIPPED.                                *)
StatusTable(signal) ==
    CASE signal.kind = "ok" /\ signal.changed = "true" -> "CHANGED"
      [] signal.kind = "ok" /\ signal.changed \in {"false", "absent"} -> "OK"
      [] signal.kind = "failed" /\ signal.ignore_errors -> "FAILED_IGNORED"
      [] signal.kind = "failed" /\ ~signal.ignore_errors -> "FAILED"
      [] signal.kind = "unreachable" -> "UNREACHABLE"
      [] signal.kind = "skipped" -> "SKIPPED"

C2_StatusDerivation ==
    \A r \in rows_in(written) : r.status = StatusTable(r.origin.signal)

C2_Witness ==
    /\ \E r \in rows_in(committed) :
          r.origin.signal.kind = "ok" /\ r.origin.signal.changed = "absent"
    /\ \E r \in rows_in(committed) :
          r.origin.signal.kind = "failed" /\ r.origin.signal.ignore_errors

(* C3: every row written after a run-start signal carries the base file     *)
(* name and the playbook_uuid that signal supplied ("N/A" when it supplied  *)
(* none), and every row written before any run-start signal carries        *)
(* "Ad-Hoc" and "N/A".  Stated for a recorder whose initialization          *)
(* succeeded.                                                               *)
C3_RowsCarryLastStart ==
    init_outcome = "ok" =>
        \A r \in rows_in(written) :
            IF r.origin.start = NoStart
            THEN r.playbook = AdHoc /\ r.playbook_uuid = NA
            ELSE /\ r.playbook = basename(r.origin.start.file_name)
                 /\ r.playbook_uuid =
                      (IF r.origin.start.uuid = Absent THEN NA
                       ELSE r.origin.start.uuid)

(* C4: every callback returns to the automation engine without raising,     *)
(* whether the recorder is disabled, the result cannot be serialized or the *)
(* INSERT or COMMIT fails, and the recorder goes on handling signals.       *)
C4_CallbacksReturn == callback.outcome = "returned"

\* a write failed, and a later signal with an unserializable result was stored
C4_Witness ==
    \E r \in rows_in(committed) :
        /\ r.result.kind = "placeholder"
        /\ \E n \in failed : n < r.origin.n

(* C5: a row whose INSERT or COMMIT failed is dropped: it is not in the     *)
(* store after its signal nor after any later signal.  Stated for a         *)
(* recorder whose initialization succeeded.                                 *)
C5_FailedWritesNeverVisible ==
    init_outcome = "ok" => \A r \in rows_in(committed) : r.origin.n \notin failed

(* C8: when the connection cannot be opened or the base table cannot be     *)
(* created at initialization, the recorder is inert: no signal that follows *)
(* makes it attempt a write.                                                *)
C8_InitFailureDisables ==
    init_outcome \in {"connect_failed", "create_failed"} =>
        attempts = 0 /\ written = <<>>

----------------------------------------------------------------------------
(* Properties of the Query Service *)

matching_ids(f) == {store[i].id : i \in {j \in 1..Len(store) : where_clause(store[j], f)}}

\* place of id x among the matching ids, largest first
rank(x, ids) == Cardinality({m \in ids : m >= x})

(* C6: total_records is the number of matching entries, total_pages is its  *)
(* quotient by 100 rounded up; a page p >= 1 holds the matching entries of  *)
(* places 100(p-1)+1 to 100p in descending id order, so the pages together  *)
(* hold each matching entry once; a page past total_pages is empty and no   *)
(* error; no match gives zero entries, zero pages and zero records.         *)
C6_Pagination ==
    (resp.kind = "logs" /\ resp.page >= 1) =>
        LET ids == matching_ids(resp.filter)
            R == Cardinality(ids)
            n == Len(resp.data)
            before == (resp.page - 1) * 100
        IN  /\ resp.status = 200
            /\ resp.total_records = R
            /\ resp.total_pages * 100 >= R
            /\ (resp.total_pages - 1) * 100 < R
            /\ n <= 100
            /\ n = (IF R - before > 100 THEN 100 ELSE IF R - before < 0 THEN 0
                    ELSE R - before)
            /\ \A k \in 1..n : resp.data[k].id \in ids
            /\ \A k \in 1..(n - 1) : resp.data[k].id > resp.data[k + 1].id
            /\ (n > 0 => rank(resp.data[1].id, ids) = before + 1)
            /\ (n > 0 => rank(resp.data[n].id, ids) = before + n)
            /\ (resp.page > resp.total_pages => n = 0)
            /\ (R = 0 => n = 0 /\ resp.total_pages = 0 /\ resp.total_records = 0)

C6_Witness ==
    /\ resp.kind = "logs"
    /\ resp.filter # NoFilter
    /\ resp.total_pages >= 2
    /\ resp.page = resp.total_pages
    /\ Len(resp.data) \in 1..99
    /\ resp.total_records < Len(store)

(* C7: the list of playbook runs has one summary for each playbook_uuid in  *)
(* the store that is neither NULL nor "N/A", with the number of its         *)
(* entries, the least and the greatest of their timestamps, ordered by      *)
(* start_time descending.                                                   *)
C7_PlaybookRuns ==
    resp.kind = "playbooks" =>
        LET uuids == {store[i].playbook_uuid : i \in 1..Len(store)} \ {NULL, NA}
            of(u) == {i \in 1..Len(store) : store[i].playbook_uuid = u}
            n == Len(resp.data)
        IN  /\ n = Cardinality(uuids)
            /\ {resp.data[k].playbook_uuid : k \in 1..n} = uuids
            /\ \A k \in 1..n :
                 LET s == resp.data[k]
                     mine == of(s.playbook_uuid)
                 IN  /\ s.task_count = Cardinality(mine)
                     /\ \E i \in mine : store[i].timestamp = s.start_time
                     /\ \E i \in mine : store[i].timestamp = s.end_time
                     /\ \A i \in mine : /\ ts_leq(s.start_time, store[i].timestamp)
                                        /\ ts_leq(store[i].timestamp, s.end_time)
            /\ \A k \in 1..n, l \in 1..n :
                 k < l => ts_leq(resp.data[l].start_time, resp.data[k].start_time)

C7_Witness ==
    /\ resp.kind = "playbooks"
    /\ Len(resp.data) >= 2
    /\ \E r \in rows_in(store) : r.playbook_uuid = NULL
    /\ \E r \in rows_in(store) : r.playbook_uuid = NA
    /\ \E k \in 1..Len(resp.data) :
          resp.data[k].task_count >= 2 /\ resp.data[k].start_time # resp.data[k].end_time

(* C9: every failure of GET /api/playbooks and GET /api/logs, at connecting *)
(* or at a query after connecting, is answered with an {error} body and a   *)
(* status other than 200.                                                   *)
C9_FailuresHaveErrorBody ==
    (resp.kind # "none" /\ resp.status # 200) => resp.kind = "error"

(* C10: in one /api/logs answer total_records is the number of entries that *)
(* match the filter in the store state the page was read from, also when    *)
(* the recorder commits rows while the request runs.                        *)
C10_CountAndPageAgree ==
    [][(req.pc = "counted" /\ resp'.kind = "logs") =>
            resp'.total_records = Cardinality(matching_ids(req.filter))]_vars

====
